---- MODULE Spec2Model ----
(***************************************************************************)
(* A model of the Amazon book image service: the URL validator and the     *)
(* seven-strategy extraction chain of app/core/image_extractor.py, the     *)
(* dual-backend cache of app/utils/cache.py and the /book-image handler of *)
(* app/api/routes.py.                                                      *)
(*                                                                         *)
(* URLs are TLA+ strings and the validator works on their characters, as   *)
(* the Python code does.  Python's None is the string None below; no URL   *)
(* of the model spells that word.                                          *)
(***************************************************************************)
EXTENDS Integers, Sequences, FiniteSets, TLC

VARIABLES
    vUrl,        \* validator run: the candidate string handed to is_valid_image_url
    vDone,       \* validator run: whether is_valid_image_url has returned
    vResult,     \* validator run: the boolean it returned
    chFetch,     \* engine run: what _fetch_html does, "ok" or "error" (it raises)
    chParse,     \* engine run: what _parse_html does, "ok" or "error" (it raises)
    chDoc,       \* engine run: the parsed document
    chDone,      \* engine run: whether extract_image_url has ended
    chOut,       \* engine run: how it ended (value, escaped, evaluated)
    cfg,         \* the application's config and whether redis-py is installed
    file,        \* the cache file on disk (book_image_cache.pkl)
    redisDb,     \* the keys the redis server holds
    cache,       \* the BookImageCache instance of the process, or NoInstance
    pending,     \* the set call that returned last, nothing having happened since
    last,        \* the last call of the cache API and how it ended
    req,         \* the url parameter of the last /book-image request
    resp,        \* the response to it
    trace,       \* the calls get_book_image made for it, in order
    extracted,   \* every URL extract_image_url has returned to get_book_image
    pageImage,   \* what extract_image_url returns for the page of the last request
    threads,     \* threaded run: each thread's position in set and get, and its locals
    lock,        \* threaded run: the thread that holds self.lock, or Unlocked
    crashed,     \* threaded run: whether the process has died
    appCache,    \* concurrent requests: current_app._book_image_cache, an instance or NoCache
    locks        \* concurrent requests: for each instance, the thread holding its lock

validVars == << vUrl, vDone, vResult >>

chainVars == << chFetch, chParse, chDoc, chDone, chOut >>

storeVars == << cfg, file, redisDb, cache >>

callVars == << pending, last >>

apiVars == << req, resp, trace, extracted, pageImage >>

lockVars == << threads, lock, crashed, appCache, locks >>

vars == << validVars, chainVars, storeVars, callVars, apiVars, lockVars >>

None == "None"

(***************************************************************************)
(* Strings.                                                                *)
(***************************************************************************)

\* Python's `t in s` for strings.
Contains(s, t) ==
    \E i \in 1..(Len(s) - Len(t) + 1) : SubSeq(s, i, i + Len(t) - 1) = t

UpperChars == "ABCDEFGHIJKLMNOPQRSTUVWXYZ"

LowerChars == "abcdefghijklmnopqrstuvwxyz"

LowerChar(c) ==
    IF \E i \in 1..Len(UpperChars) : SubSeq(UpperChars, i, i) = c
    THEN LET i == CHOOSE k \in 1..Len(UpperChars) : SubSeq(UpperChars, k, k) = c
         IN  SubSeq(LowerChars, i, i)
    ELSE c

\* The characters of s from position i on, in lower case.
RECURSIVE LowerFrom(_, _)
LowerFrom(s, i) ==
    IF i > Len(s) THEN ""
    ELSE LowerChar(SubSeq(s, i, i)) \o LowerFrom(s, i + 1)

\* str.lower()
Lower(s) == LowerFrom(s, 1)

Digits == "0123456789"

IsDigit(c) == \E i \in 1..Len(Digits) : SubSeq(Digits, i, i) = c

DigitVal(c) == (CHOOSE i \in 1..Len(Digits) : SubSeq(Digits, i, i) = c) - 1

\* The number the first n digits of d spell.
RECURSIVE ParseDigits(_, _)
ParseDigits(d, n) ==
    IF n = 0 THEN 0
    ELSE ParseDigits(d, n - 1) * 10 + DigitVal(SubSeq(d, n, n))

\* int() of a string of decimal digits
ParseInt(d) == ParseDigits(d, Len(d))

\* The length of the longest run of digits of s that starts at position i.
RECURSIVE DigitRun(_, _)
DigitRun(s, i) ==
    IF i <= Len(s) /\ IsDigit(SubSeq(s, i, i)) THEN 1 + DigitRun(s, i + 1) ELSE 0

\* Whether the pattern  tag (\d+) _  matches s at position i.  \d+ is greedy
\* and the closing underscore is no digit, so the match takes the whole run.
TokenAt(s, tag, i) ==
    /\ SubSeq(s, i, i + Len(tag) - 1) = tag
    /\ DigitRun(s, i + Len(tag)) >= 1
    /\ LET e == i + Len(tag) + DigitRun(s, i + Len(tag))
       IN  e <= Len(s) /\ SubSeq(s, e, e) = "_"

\* re.search(tag + r'(\d+)_', s): group 1 of the leftmost match, or None.
ReSearchDim(s, tag) ==
    LET hits == { i \in 1..Len(s) : i + Len(tag) - 1 <= Len(s) /\ TokenAt(s, tag, i) }
    IN  IF hits = {} THEN None
        ELSE LET i == CHOOSE k \in hits : \A j \in hits : k <= j
             IN  SubSeq(s, i + Len(tag), i + Len(tag) + DigitRun(s, i + Len(tag)) - 1)

(***************************************************************************)
(* The URL validator.                                                      *)
(***************************************************************************)

PLACEHOLDER_IMAGES ==
    << "grey-pixel.gif", "transparent-pixel.gif", "loading-img", "no-img",
       "no-image", "placeholder", "spinner", "loading", "blank" >>

image_extensions == << ".jpg", ".jpeg", ".png", ".gif", ".webp" >>

MinDimension == 100

\* The placeholder check without lower(): a case-sensitive comparison.
IsPlaceholderCaseSensitive(url) ==
    \E k \in 1..Len(PLACEHOLDER_IMAGES) : Contains(url, PLACEHOLDER_IMAGES[k])

IsPlaceholder(url) ==
    LET lowered == Lower(url)
    IN  \E k \in 1..Len(PLACEHOLDER_IMAGES) : Contains(lowered, PLACEHOLDER_IMAGES[k])

has_extension(url) ==
    LET lowered == Lower(url)
    IN  \E k \in 1..Len(image_extensions) : Contains(lowered, image_extensions[k])

is_amazon_image(url) ==
    Contains(url, "amazon") \/ Contains(url, "images-na.ssl-images-amazon.com")

\* The minimum-size check rejecting only when both axes are below the limit.
TooSmallBothAxes(url) ==
    /\ Contains(url, "SX") /\ Contains(url, "SY")
    /\ LET sx_match == ReSearchDim(url, "_SX")
           sy_match == ReSearchDim(url, "_SY")
       IN  /\ sx_match # None /\ sy_match # None
           /\ (ParseInt(sx_match) < MinDimension /\ ParseInt(sy_match) < MinDimension)

\* The minimum-size check: TRUE when it rejects the candidate.
TooSmall(url) ==
    /\ Contains(url, "SX") /\ Contains(url, "SY")
    /\ LET sx_match == ReSearchDim(url, "_SX")
           sy_match == ReSearchDim(url, "_SY")
       IN  /\ sx_match # None /\ sy_match # None
           /\ (ParseInt(sx_match) < MinDimension \/ ParseInt(sy_match) < MinDimension)

is_valid_image_url(url) ==
    IF url = None \/ url = "" THEN FALSE
    ELSE IF IsPlaceholder(url) THEN FALSE
    ELSE IF TooSmall(url) THEN FALSE
    ELSE is_amazon_image(url) /\ (has_extension(url) \/ Contains(url, "images-amazon"))

(***************************************************************************)
(* Candidate strings for the validator: every concatenation of at most     *)
(* MaxFrags fragments.                                                     *)
(***************************************************************************)

MaxFrags == 3

Fragments ==
    { "amazon", "AMAZON", ".jpg", ".PNG", "images-amazon",
      "Blank", "no-img", "_SX80_", "_SX300_", "SY80_", "SY300_", "_SXL_" }

RECURSIVE Concats(_)
Concats(n) ==
    IF n = 0 THEN { "" }
    ELSE LET shorter == Concats(n - 1)
         IN  shorter \cup { s \o f : s \in shorter, f \in Fragments }

Candidates == Concats(MaxFrags)

(***************************************************************************)
(* Documents.  A document is what the strategies' queries see of it: the   *)
(* element each select_one returns, the script blocks and the img list.    *)
(* An attribute that is absent is None.  The img matched by a selector is  *)
(* also an element of find_all('img'); it is left out of imgs when it has  *)
(* no keyword alt and no width/height, where methods 6 and 7 skip it.      *)
(***************************************************************************)

UrlA == "m.media-amazon.com/I/a._SX300_SY400_.jpg"

UrlB == "m.media-amazon.com/I/b.jpg"

UrlBad == "m.media-amazon.com/G/grey-pixel.gif"

NoElement == [tag |-> "none"]

\* The data-a-dynamic-image attribute: absent, not JSON, JSON that is no
\* object (a list, a number, a string), or a JSON object with its keys.
KeyLists == { << >>, << UrlBad >>, << UrlA >>, << UrlBad, UrlB >> }

DynAttrs ==
    { [kind |-> k, keys |-> << >>] : k \in { "absent", "badjson", "nonobject" } }
    \cup { [kind |-> "object", keys |-> ks] : ks \in KeyLists }

\* #imgBlkFront, #ebooksImgBlkFront
FrontElems == { [tag |-> "front", dyn |-> d] : d \in DynAttrs }

\* One script block: the mainUrl values its imageGalleryData payloads give
\* ("badjson": a payload that does not decode; "nonstr": a mainUrl that is
\* a number or an object), and the URLs the ImageBlockATF scan finds.
GalleryLists == { << >>, << "badjson" >>, << "nonstr" >>, << UrlBad >>, << UrlB >> }

AtfLists == { << >>, << UrlBad >>, << UrlA >> }

ScriptElems ==
    { [tag |-> "script", gallery |-> g, atf |-> a] : g \in GalleryLists, a \in AtfLists }

\* #imageBlock_feature_div img, #main-image-container img, #imgTagWrapperId img
GalleryElems ==
    { [tag |-> "gallery", src |-> s, hires |-> h] :
        s \in { None, UrlBad, UrlA }, h \in { None, UrlBad, UrlB } }

\* #landingImage, #imgBlkFront, #main-image, #img-canvas img
MainElems ==
    { [tag |-> "main", src |-> s, dyn |-> d] :
        s \in { None, UrlBad, UrlB }, d \in DynAttrs }

\* .a-fixed-left-grid-col img, .a-fixed-right-grid-col img, .dp-title-col img
DetailElems == { [tag |-> "detail", src |-> s] : s \in { None, UrlBad, UrlA } }

\* An img of find_all('img').
ImgDims ==
    { [width |-> None, height |-> None], [width |-> "200", height |-> "200"],
      [width |-> "200", height |-> "199"], [width |-> "auto", height |-> "200"] }

ImgElems ==
    { [tag |-> "img", src |-> s, alt |-> a, width |-> d.width, height |-> d.height] :
        s \in { None, UrlBad, UrlB }, a \in { "", "Book Cover" }, d \in ImgDims }

Doc(f, s, g, m, d, i) ==
    [front |-> f, scripts |-> s, gallery |-> g, main |-> m, detail |-> d, imgs |-> i]

EmptyDoc == Doc(NoElement, << >>, NoElement, NoElement, NoElement, << >>)

\* How many of its six parts a document fills.
Filled(doc) ==
    (IF doc.front = NoElement THEN 0 ELSE 1) + Len(doc.scripts)
    + (IF doc.gallery = NoElement THEN 0 ELSE 1) + (IF doc.main = NoElement THEN 0 ELSE 1)
    + (IF doc.detail = NoElement THEN 0 ELSE 1) + Len(doc.imgs)

MaxElems == 2

\* The sequences over S of length at most n (none when n is negative).
SeqsUpTo(S, n) == UNION { [1..k -> S] : k \in 0..n }

(***************************************************************************)
(* The seven strategies.  Each returns how the method ends: the value it   *)
(* returns (a URL or None), or raised when an exception leaves it.         *)
(***************************************************************************)

\* is_valid_image_url on the URLs the documents hold, tabulated once.
DocUrls == { UrlA, UrlB, UrlBad, None, "" }

ValidTable == [u \in DocUrls |-> is_valid_image_url(u)]

IsValid(url) == ValidTable[url]

Returns(v) == [ret |-> v, raised |-> FALSE]

Raises == [ret |-> None, raised |-> TRUE]

\* for url in urls: if self.IsValid(url): return url
RECURSIVE FirstValid(_)
FirstValid(urls) ==
    IF urls = << >> THEN None
    ELSE IF IsValid(Head(urls)) THEN Head(urls)
    ELSE FirstValid(Tail(urls))

\* json.loads(attr) followed by .keys(): "keys" when both succeed,
\* "JSONDecodeError" when the text is no JSON, "AttributeError" when the
\* decoded value is no object and has no keys().
LoadKeys(dyn) ==
    CASE dyn.kind = "object" -> "keys"
      [] dyn.kind = "badjson" -> "JSONDecodeError"
      [] dyn.kind = "nonobject" -> "AttributeError"

\* except Exception: every fault of the try block is swallowed.
extract_method_1(doc) ==
    LET img_element == doc.front
    IN  IF img_element # NoElement /\ img_element.dyn.kind # "absent"
        THEN IF LoadKeys(img_element.dyn) = "keys"
             THEN Returns(FirstValid(img_element.dyn.keys))
             ELSE Returns(None)
        ELSE Returns(None)

\* The imageGalleryData part of one script: "found" with the URL, "none"
\* when the payloads are used up, "fault" when a mainUrl that is no string
\* makes is_valid_image_url raise; the outer except ends the part there.
RECURSIVE GalleryScan(_)
GalleryScan(items) ==
    IF items = << >> THEN [end |-> "none", url |-> None]
    ELSE IF Head(items) = "badjson" THEN GalleryScan(Tail(items))
    ELSE IF Head(items) = "nonstr" THEN [end |-> "fault", url |-> None]
    ELSE IF IsValid(Head(items)) THEN [end |-> "found", url |-> Head(items)]
    ELSE GalleryScan(Tail(items))

RECURSIVE ScanScripts(_)
ScanScripts(scripts) ==
    IF scripts = << >> THEN None
    ELSE LET script == Head(scripts)
             g == GalleryScan(script.gallery)
         IN  IF g.end = "found" THEN g.url
             ELSE IF FirstValid(script.atf) # None THEN FirstValid(script.atf)
             ELSE ScanScripts(Tail(scripts))

extract_method_2(doc) == Returns(ScanScripts(doc.scripts))

extract_method_3(doc) ==
    LET img_gallery == doc.gallery
    IN  IF img_gallery # NoElement /\ img_gallery.src # None
        THEN IF IsValid(img_gallery.src) THEN Returns(img_gallery.src)
             ELSE IF img_gallery.hires # None /\ IsValid(img_gallery.hires)
                  THEN Returns(img_gallery.hires)
             ELSE Returns(None)
        ELSE Returns(None)

\* Method 4 handing back the src of the main image without validating it.
extract_method_4_unchecked(doc) ==
    LET main_image == doc.main
    IN  IF main_image # NoElement /\ main_image.src # None
        THEN Returns(main_image.src)
        ELSE Returns(None)

\* except json.JSONDecodeError: only the decode fault is swallowed; the
\* AttributeError of .keys() on a value that is no object leaves the method.
extract_method_4(doc) ==
    LET main_image == doc.main
    IN  IF main_image # NoElement /\ main_image.src # None
        THEN IF IsValid(main_image.src) THEN Returns(main_image.src)
             ELSE IF main_image.dyn.kind # "absent"
                  THEN CASE LoadKeys(main_image.dyn) = "keys" ->
                                Returns(FirstValid(main_image.dyn.keys))
                         [] LoadKeys(main_image.dyn) = "JSONDecodeError" -> Returns(None)
                         [] LoadKeys(main_image.dyn) = "AttributeError" -> Raises
             ELSE Returns(None)
        ELSE Returns(None)

extract_method_5(doc) ==
    LET book_image == doc.detail
    IN  IF book_image # NoElement /\ book_image.src # None /\ IsValid(book_image.src)
        THEN Returns(book_image.src)
        ELSE Returns(None)

AltMatches(alt) ==
    LET lowered == Lower(alt)
    IN  Contains(lowered, "book") \/ Contains(lowered, "cover") \/ Contains(lowered, "product")

RECURSIVE ScanAlt(_)
ScanAlt(imgs) ==
    IF imgs = << >> THEN None
    ELSE LET img == Head(imgs)
         IN  IF img.src # None /\ AltMatches(img.alt) /\ IsValid(img.src)
             THEN img.src
             ELSE ScanAlt(Tail(imgs))

extract_method_6(doc) == Returns(ScanAlt(doc.imgs))

\* int(s) succeeds on a string of decimal digits; otherwise ValueError.
IsNumeric(s) == Len(s) > 0 /\ DigitRun(s, 1) = Len(s)

LargeImageMin == 200

RECURSIVE ScanLarge(_)
ScanLarge(imgs) ==
    IF imgs = << >> THEN None
    ELSE LET img == Head(imgs)
         IN  IF /\ img.src # None /\ img.width # None /\ img.height # None
                /\ IsNumeric(img.width) /\ IsNumeric(img.height)
                /\ ParseInt(img.width) >= LargeImageMin
                /\ ParseInt(img.height) >= LargeImageMin
                /\ IsValid(img.src)
             THEN img.src
             ELSE ScanLarge(Tail(imgs))

extract_method_7(doc) == Returns(ScanLarge(doc.imgs))

NumMethods == 7

Method(idx, doc) ==
    CASE idx = 1 -> extract_method_1(doc)
      [] idx = 2 -> extract_method_2(doc)
      [] idx = 3 -> extract_method_3(doc)
      [] idx = 4 -> extract_method_4(doc)
      [] idx = 5 -> extract_method_5(doc)
      [] idx = 6 -> extract_method_6(doc)
      [] idx = 7 -> extract_method_7(doc)

(***************************************************************************)
(* The engine.                                                             *)
(***************************************************************************)

\* How a run of the engine ended: the value returned, whether an exception
\* escaped to the caller instead, and the methods evaluated, in order.
Ended(v, esc, ev) == [value |-> v, escaped |-> esc, evaluated |-> ev]

NoRun == Ended(None, FALSE, << >>)

\* _parse_html: lxml first and html.parser when lxml raises.  "ok" is
\* either of them yielding the soup, "error" is html.parser raising too.
parse_html(parse) == IF parse = "error" THEN "raised" ELSE "soup"

\* for idx, method in enumerate(methods, 1): ... if image_url: return image_url
RECURSIVE RunMethods(_, _, _)
RunMethods(doc, idx, evaluated) ==
    IF idx > NumMethods THEN [ret |-> None, raised |-> FALSE, evaluated |-> evaluated]
    ELSE LET out == Method(idx, doc)
             seen == Append(evaluated, idx)
         IN  IF out.raised THEN [ret |-> None, raised |-> TRUE, evaluated |-> seen]
             ELSE IF out.ret # None /\ out.ret # ""
                  THEN [ret |-> out.ret, raised |-> FALSE, evaluated |-> seen]
             ELSE RunMethods(doc, idx + 1, seen)

\* The try block of extract_image_url: fetch, parse, the chain.
ExtractBody(fetch, parse, doc) ==
    IF fetch = "error" THEN [ret |-> None, raised |-> TRUE, evaluated |-> << >>]
    ELSE IF parse_html(parse) = "raised" THEN [ret |-> None, raised |-> TRUE, evaluated |-> << >>]
    ELSE RunMethods(doc, 1, << >>)

\* The engine without its try/except: a fault of the body leaves the call.
extract_image_url_unguarded(fetch, parse, doc) ==
    LET body == ExtractBody(fetch, parse, doc)
    IN  Ended(body.ret, body.raised, body.evaluated)

\* except Exception: return None
extract_image_url(fetch, parse, doc) ==
    LET body == ExtractBody(fetch, parse, doc)
    IN  IF body.raised THEN Ended(None, FALSE, body.evaluated)
        ELSE Ended(body.ret, FALSE, body.evaluated)

(***************************************************************************)
(* The cache store.                                                        *)
(***************************************************************************)

DEFAULT_KEY_PREFIX == "amazon_book_image"

DEFAULT_REDIS_URL == "redis://localhost:6379/0"

\* key = f"{self.key_prefix}:{book_url}"
Key(prefix, book_url) == prefix \o ":" \o book_url

EmptyMap == << >>

\* cache[key] = image_url
MapSet(map, key, value) ==
    [k \in (DOMAIN map) \cup { key } |-> IF k = key THEN value ELSE map[k]]

\* dict.get(key)
MapGet(map, key) == IF key \in DOMAIN map THEN map[key] ELSE None

MapDel(map, key) == [k \in (DOMAIN map) \ { key } |-> map[k]]

\* The file: missing, a complete pickle of a map, or bytes that do not
\* unpickle (the empty file open(.., 'wb') leaves, a dump cut short).
NoFile == [blob |-> "nofile", map |-> EmptyMap]

Truncated == [blob |-> "truncated", map |-> EmptyMap]

\* pickle.dump(cache, f)
Dump(map) == [blob |-> "pickle", map |-> map]

\* os.path.exists(self.file_db_path)
Exists(f) == f.blob # "nofile"

\* pickle.load(f): the map, or raised on bytes that are no complete pickle.
Load(f) ==
    IF f.blob = "pickle" THEN [raised |-> FALSE, map |-> f.map]
    ELSE [raised |-> TRUE, map |-> EmptyMap]

\* str -> bytes on the way into redis, result.decode() on the way out; the
\* bytes b'...' are written as Python prints them.
Encode(str) == "b'" \o str \o "'"

Decode(b) == SubSeq(b, 3, Len(b) - 1)

NoInstance == [use_redis |-> FALSE, redis_client |-> FALSE, key_prefix |-> "", built |-> FALSE,
               ping |-> FALSE]

StartsWith(str, prefix) == Len(str) >= Len(prefix) /\ SubSeq(str, 1, Len(prefix)) = prefix

\* if redis and self.redis_url and self.redis_url.startswith('redis://')
TriesRedis(config) ==
    /\ config.redis_module
    /\ config.CACHE_REDIS_URL # None /\ config.CACHE_REDIS_URL # ""
    /\ StartsWith(config.CACHE_REDIS_URL, "redis://")

Instance(use_redis, client, ping) ==
    [use_redis |-> use_redis, redis_client |-> client, key_prefix |-> DEFAULT_KEY_PREFIX,
     built |-> TRUE, ping |-> ping]

\* __init__ without the try/except around from_url and ping.
BookImageCache_init_unguarded(config, ping) ==
    IF TriesRedis(config)
    THEN [raised |-> ~ping, instance |-> IF ping THEN Instance(TRUE, TRUE, ping) ELSE NoInstance]
    ELSE [raised |-> FALSE, instance |-> Instance(FALSE, FALSE, ping)]

\* BookImageCache.__init__; ping is whether from_url and ping() succeed.
BookImageCache_init(config, ping) ==
    IF TriesRedis(config)
    THEN IF ping THEN [raised |-> FALSE, instance |-> Instance(TRUE, TRUE, ping)]
         ELSE [raised |-> FALSE, instance |-> Instance(FALSE, TRUE, ping)]
    ELSE [raised |-> FALSE, instance |-> Instance(FALSE, FALSE, ping)]

\* How a get ended.
GetEnded(raised, ret) == [raised |-> raised, ret |-> ret]

\* The redis branch of get that hands back the bytes undecoded.
redis_get_undecoded(inst, book_url, db, reachable) ==
    IF ~reachable THEN GetEnded(TRUE, None)
    ELSE LET result == MapGet(db, Key(inst.key_prefix, book_url))
         IN  GetEnded(FALSE, result)

\* get, redis branch; reachable is whether the server answers this call.
redis_get(inst, book_url, db, reachable) ==
    IF ~reachable THEN GetEnded(TRUE, None)
    ELSE LET result == MapGet(db, Key(inst.key_prefix, book_url))
         IN  IF result # None /\ result # Encode("") THEN GetEnded(FALSE, Decode(result))
             ELSE GetEnded(FALSE, None)

\* get, file branch, the whole of the with self.lock block.
file_get(inst, book_url, f) ==
    IF ~Exists(f) THEN GetEnded(FALSE, None)
    ELSE IF Load(f).raised THEN GetEnded(TRUE, None)
    ELSE GetEnded(FALSE, MapGet(Load(f).map, Key(inst.key_prefix, book_url)))

cache_get(inst, book_url, f, db, reachable) ==
    IF inst.use_redis THEN redis_get(inst, book_url, db, reachable)
    ELSE file_get(inst, book_url, f)

\* How a set ended, and the file and the redis keys it leaves.
SetEnded(raised, f, db) == [raised |-> raised, file |-> f, db |-> db]

\* set, redis branch: setex(key, self.timeout, image_url)
redis_set(inst, book_url, image_url, f, db, reachable) ==
    IF ~reachable THEN SetEnded(TRUE, f, db)
    ELSE SetEnded(FALSE, f, MapSet(db, Key(inst.key_prefix, book_url), Encode(image_url)))

\* set, file branch, the whole of the with self.lock block.
file_set(inst, book_url, image_url, f, db) ==
    IF Exists(f) /\ Load(f).raised THEN SetEnded(TRUE, f, db)
    ELSE LET loaded == IF Exists(f) THEN Load(f).map ELSE EmptyMap
         IN  SetEnded(FALSE, Dump(MapSet(loaded, Key(inst.key_prefix, book_url), image_url)), db)

\* set writing to the file when the redis server does not answer.
cache_set_falls_back(inst, book_url, image_url, f, db, reachable) ==
    IF inst.use_redis /\ reachable THEN redis_set(inst, book_url, image_url, f, db, reachable)
    ELSE file_set(inst, book_url, image_url, f, db)

cache_set(inst, book_url, image_url, f, db, reachable) ==
    IF inst.use_redis THEN redis_set(inst, book_url, image_url, f, db, reachable)
    ELSE file_set(inst, book_url, image_url, f, db)

(***************************************************************************)
(* The /book-image handler.                                                *)
(***************************************************************************)

\* The url parameters requests carry: a product page, a second one, one with
\* the host in capitals, a page of another site, an empty one and a missing
\* one.
PageUrl1 == "https://www.amazon.com/dp/1"

PageUrl2 == "https://www.amazon.com/dp/2"

PageUrls == { PageUrl1, PageUrl2 }

OtherUrl == "https://example.com/book"

PageUrlUpper == "https://www.AMAZON.com/dp/2"

RequestUrls == { None, "", OtherUrl, PageUrl1, PageUrlUpper }

\* What the network has for the page: a fetch that raises, markup the
\* parsers raise on, or a document.
Page(fetch, parse, doc) == [fetch |-> fetch, parse |-> parse, doc |-> doc]

\* The documents a product page may parse to: with or without a front image
\* block whose first key is a cover, and with a main image that is a cover,
\* a placeholder, or a placeholder with a dynamic-image attribute that is
\* not JSON or not a JSON object.
PageDocs ==
    { Doc(f, << >>, NoElement, m, NoElement, << >>) :
        f \in { NoElement, [tag |-> "front", dyn |-> [kind |-> "object", keys |-> << UrlA >>]] },
        m \in { NoElement } \cup
              { [tag |-> "main", src |-> sd[1], dyn |-> [kind |-> sd[2], keys |-> << >>]] :
                  sd \in { << UrlB, "absent" >>, << UrlBad, "absent" >>,
                           << UrlBad, "badjson" >>, << UrlBad, "nonobject" >> } } }

Pages ==
    { Page("error", "ok", EmptyDoc), Page("ok", "error", EmptyDoc) }
    \cup { Page("ok", "ok", d) : d \in PageDocs }

\* extractor.extract_image_url(book_url), computed once for each page
ExtractTable == [p \in Pages |-> extract_image_url(p.fetch, p.parse, p.doc)]

Extracted(page) == ExtractTable[page]

\* 'amazon' in book_url.lower(), computed once for each url parameter
AmazonTable == [u \in RequestUrls |-> Contains(Lower(u), "amazon")]

\* The check letting every URL through.
AcceptsAnyUrl(book_url) == TRUE

IsAmazonUrl(book_url) == AmazonTable[book_url]

\* jsonify({...}), status
Response(status, success, image_url, cached, backend) ==
    [status |-> status, success |-> success, image_url |-> image_url,
     cached |-> cached, cache_backend |-> backend]

NoResponse == Response(0, FALSE, None, FALSE, None)

BadRequest == Response(400, FALSE, None, FALSE, None)

NotFound == Response(404, FALSE, None, FALSE, None)

ServerError == Response(500, FALSE, None, FALSE, None)

\* 'redis' if cache.use_redis else 'file'
Backend(inst) == IF inst.use_redis THEN "redis" ELSE "file"

\* One call the handler made: what it called, with which URL and value,
\* and what came back ("raised" when it raised).
Made(call, url, value, out) == [call |-> call, url |-> url, value |-> value, out |-> out]

\* What the handler leaves: the response, the app's cache instance, the
\* file, the redis keys and the calls it made.
Handled(r, inst, f, db, t) == [resp |-> r, cache |-> inst, file |-> f, db |-> db, trace |-> t]

\* Python truthiness of a str or None
Truthy(v) == v # None /\ v # ""

\* The miss branch that answers without writing the image to the cache.
OnMissUnwritten(inst, book_url, f, db, reachSet, ex, t) ==
    LET t2 == Append(t, Made("extract_image_url", book_url, None,
                             IF ex.escaped THEN "raised" ELSE ex.value))
    IN  IF ex.escaped THEN Handled(ServerError, inst, f, db, t2)
        ELSE IF Truthy(ex.value)
        THEN Handled(Response(200, TRUE, ex.value, FALSE, Backend(inst)), inst, f, db, t2)
        ELSE Handled(NotFound, inst, f, db, t2)

\* Not cached, extract: the rest of the try block after a miss.  ex is how
\* extractor.extract_image_url(book_url) ends.
OnMiss(inst, book_url, f, db, reachSet, ex, t) ==
    LET t2 == Append(t, Made("extract_image_url", book_url, None,
                             IF ex.escaped THEN "raised" ELSE ex.value))
    IN  IF ex.escaped THEN Handled(ServerError, inst, f, db, t2)
        ELSE IF Truthy(ex.value)
        THEN LET put == cache_set(inst, book_url, ex.value, f, db, reachSet)
                 t3 == Append(t2, Made("cache.set", book_url, ex.value,
                                       IF put.raised THEN "raised" ELSE None))
             IN  IF put.raised THEN Handled(ServerError, inst, put.file, put.db, t3)
                 ELSE Handled(Response(200, TRUE, ex.value, FALSE, Backend(inst)),
                              inst, put.file, put.db, t3)
        ELSE Handled(NotFound, inst, f, db, t2)

\* The try block from the cache lookup on.
Lookup(inst, book_url, f, db, reachGet, reachSet, ex, t) ==
    LET got == cache_get(inst, book_url, f, db, reachGet)
        t1 == Append(t, Made("cache.get", book_url, None,
                             IF got.raised THEN "raised" ELSE got.ret))
    IN  IF got.raised THEN Handled(ServerError, inst, f, db, t1)
        ELSE IF Truthy(got.ret)
        THEN Handled(Response(200, TRUE, got.ret, TRUE, Backend(inst)), inst, f, db, t1)
        ELSE OnMiss(inst, book_url, f, db, reachSet, ex, t1)

\* get_book_image.  inst is current_app._book_image_cache (NoInstance when
\* the attribute is not set); ping, reachGet and reachSet are whether the
\* redis server answers the constructor, the get and the set; ex is how
\* extractor.extract_image_url(book_url) ends if it is called.
get_book_image(book_url, config, inst, f, db, ping, reachGet, reachSet, ex) ==
    IF ~Truthy(book_url) THEN Handled(BadRequest, inst, f, db, << >>)
    ELSE IF ~IsAmazonUrl(book_url) THEN Handled(BadRequest, inst, f, db, << >>)
    ELSE IF inst.built THEN Lookup(inst, book_url, f, db, reachGet, reachSet, ex, << >>)
    ELSE LET made == BookImageCache_init(config, ping)
             t0 == << Made("BookImageCache", None, None,
                           IF made.raised THEN "raised" ELSE None) >>
         IN  IF made.raised THEN Handled(ServerError, inst, f, db, t0)
             ELSE Lookup(made.instance, book_url, f, db, reachGet, reachSet, ex, t0)

(***************************************************************************)
(* The parts of the state a specification leaves alone.                    *)
(***************************************************************************)

ChainIdle ==
    /\ chFetch = "ok"
    /\ chParse = "ok"
    /\ chDoc = EmptyDoc
    /\ chDone = FALSE
    /\ chOut = NoRun

ValidIdle ==
    /\ vUrl = ""
    /\ vDone = FALSE
    /\ vResult = FALSE

DefaultConfig == [redis_module |-> TRUE, CACHE_REDIS_URL |-> DEFAULT_REDIS_URL]

StoreIdle ==
    /\ cfg = DefaultConfig
    /\ file = NoFile
    /\ redisDb = EmptyMap
    /\ cache = NoInstance

NoPending == [url |-> None, value |-> None]

\* A call of the cache API: what was called with what, whether it raised,
\* what it returned, and the set it came straight after.
Call(op, url, value, raised, ret, after) ==
    [op |-> op, url |-> url, value |-> value, raised |-> raised, ret |-> ret, after |-> after]

NoCall == Call("none", None, None, FALSE, None, NoPending)

CallIdle ==
    /\ pending = NoPending
    /\ last = NoCall

ApiIdle ==
    /\ req = None
    /\ resp = NoResponse
    /\ trace = << >>
    /\ extracted = { }
    /\ pageImage = None

\* self.lock = threading.Lock(): no thread holds it.
Unlocked == 0

\* getattr(current_app, '_book_image_cache', None) giving None
NoCache == 0

LockIdle ==
    /\ threads = << >>
    /\ lock = Unlocked
    /\ crashed = FALSE
    /\ appCache = NoCache
    /\ locks = << >>

(***************************************************************************)
(* Validator runs: one candidate, one call.                                *)
(***************************************************************************)

InitValid ==
    /\ vUrl \in Candidates
    /\ vDone = FALSE
    /\ vResult = FALSE
    /\ ChainIdle /\ StoreIdle /\ CallIdle /\ ApiIdle /\ LockIdle

Validate ==
    /\ ~vDone
    /\ vDone' = TRUE
    /\ vResult' = is_valid_image_url(vUrl)
    /\ UNCHANGED << vUrl, chainVars, storeVars, callVars, apiVars, lockVars >>

NextValid == Validate

SpecValid == InitValid /\ [][NextValid]_vars

(***************************************************************************)
(* Engine runs: one fetch outcome, one parse outcome, one document, one    *)
(* call of extract_image_url.                                              *)
(***************************************************************************)

\* A fetch or a parse that raises leaves no document behind.
InitChain ==
    /\ chFetch \in { "ok", "error" }
    /\ chParse \in { "ok", "error" }
    /\ \E f \in FrontElems \cup { NoElement }, g \in GalleryElems \cup { NoElement },
          m \in MainElems \cup { NoElement }, d \in DetailElems \cup { NoElement } :
          LET room == MaxElems - Filled(Doc(f, << >>, g, m, d, << >>))
          IN  \E s \in SeqsUpTo(ScriptElems, room) :
                  \E i \in SeqsUpTo(ImgElems, room - Len(s)) :
                      chDoc = IF chFetch = "ok" /\ chParse = "ok"
                              THEN Doc(f, s, g, m, d, i) ELSE EmptyDoc
    /\ chDone = FALSE
    /\ chOut = NoRun
    /\ ValidIdle /\ StoreIdle /\ CallIdle /\ ApiIdle /\ LockIdle

Extract ==
    /\ ~chDone
    /\ chDone' = TRUE
    /\ chOut' = extract_image_url(chFetch, chParse, chDoc)
    /\ UNCHANGED << chFetch, chParse, chDoc, validVars, storeVars, callVars, apiVars, lockVars >>

NextChain == Extract

SpecChain == InitChain /\ [][NextChain]_vars

(***************************************************************************)
(* The cache API used by one thread: a process builds its BookImageCache   *)
(* and calls get and set; redis keys expire; the process may end, also in  *)
(* the middle of a set, and a later process builds a new instance over the *)
(* same file and the same redis server.                                    *)
(***************************************************************************)

ImageValues == { UrlA, UrlB }

Configs ==
    [redis_module : BOOLEAN,
     CACHE_REDIS_URL : { None, DEFAULT_REDIS_URL, "memcached://localhost" }]

InitCache ==
    /\ cfg \in Configs
    /\ file = NoFile
    /\ redisDb = EmptyMap
    /\ cache = NoInstance
    /\ CallIdle /\ ValidIdle /\ ChainIdle /\ ApiIdle /\ LockIdle

\* cache = BookImageCache(config)
Construct ==
    /\ ~cache.built
    /\ \E ping \in BOOLEAN :
          LET made == BookImageCache_init(cfg, ping)
          IN  /\ cache' = made.instance
              /\ last' = Call("init", None, None, made.raised, None, NoPending)
    /\ pending' = NoPending
    /\ UNCHANGED << cfg, file, redisDb, validVars, chainVars, apiVars, lockVars >>

\* cache.get(book_url)
CacheGet ==
    /\ cache.built
    /\ \E u \in PageUrls, reachable \in BOOLEAN :
          LET got == cache_get(cache, u, file, redisDb, reachable)
          IN  last' = Call("get", u, None, got.raised, got.ret, pending)
    /\ pending' = NoPending
    /\ UNCHANGED << storeVars, validVars, chainVars, apiVars, lockVars >>

\* cache.set(book_url, image_url)
CacheSet ==
    /\ cache.built
    /\ \E u \in PageUrls, v \in ImageValues, reachable \in BOOLEAN :
          LET put == cache_set(cache, u, v, file, redisDb, reachable)
          IN  /\ file' = put.file
              /\ redisDb' = put.db
              /\ last' = Call("set", u, v, put.raised, None, NoPending)
              /\ pending' = IF put.raised THEN NoPending ELSE [url |-> u, value |-> v]
    /\ UNCHANGED << cfg, cache, validVars, chainVars, apiVars, lockVars >>

\* The time-to-live of a redis key runs out.
RedisExpire ==
    /\ \E k \in DOMAIN redisDb : redisDb' = MapDel(redisDb, k)
    /\ pending' = NoPending
    /\ UNCHANGED << cfg, file, cache, last, validVars, chainVars, apiVars, lockVars >>

\* The process ends between two calls; the file and the redis keys stay.
ProcessExit ==
    /\ cache.built
    /\ cache' = NoInstance
    /\ pending' = NoPending
    /\ last' = NoCall
    /\ UNCHANGED << cfg, file, redisDb, validVars, chainVars, apiVars, lockVars >>

\* The process dies inside the file branch of set, after open(path, 'wb')
\* has emptied the file and before pickle.dump has written all of it.
SetCrash ==
    /\ cache.built /\ ~cache.use_redis
    /\ ~(Exists(file) /\ Load(file).raised)
    /\ file' = Truncated
    /\ cache' = NoInstance
    /\ pending' = NoPending
    /\ last' = NoCall
    /\ UNCHANGED << cfg, redisDb, validVars, chainVars, apiVars, lockVars >>

NextCache ==
    \/ Construct
    \/ CacheGet
    \/ CacheSet
    \/ RedisExpire
    \/ ProcessExit
    \/ SetCrash

SpecCache == InitCache /\ [][NextCache]_vars

(***************************************************************************)
(* The service: /book-image requests handled one after the other by a      *)
(* process; redis keys expire; the process may end, also in the middle of  *)
(* a file set, and the next process starts with no cache instance.         *)
(***************************************************************************)

AppConfigs == { DefaultConfig, [redis_module |-> TRUE, CACHE_REDIS_URL |-> None] }

Init ==
    /\ cfg \in AppConfigs
    /\ file = NoFile
    /\ redisDb = EmptyMap
    /\ cache = NoInstance
    /\ ApiIdle /\ CallIdle /\ ValidIdle /\ ChainIdle /\ LockIdle

\* The URLs extract_image_url returned in a run of the handler.
Found(t) ==
    { t[k].out : k \in { j \in 1..Len(t) : t[j].call = "extract_image_url"
                                            /\ t[j].out # "raised" /\ t[j].out # None } }

\* The server's answers matter only to an instance that talks to it.
Answers(relevant) == IF relevant THEN BOOLEAN ELSE { TRUE }

\* GET /book-image?url=...
Request ==
    \E book_url \in RequestUrls, ex \in { Extracted(page) : page \in Pages } :
    \E ping \in Answers(~cache.built /\ TriesRedis(cfg)) :
    \E reachGet \in Answers(cache.use_redis \/ (~cache.built /\ ping /\ TriesRedis(cfg))),
       reachSet \in Answers(cache.use_redis \/ (~cache.built /\ ping /\ TriesRedis(cfg))) :
        \E h \in { get_book_image(book_url, cfg, cache, file, redisDb,
                                   ping, reachGet, reachSet, ex) } :
            /\ req' = book_url
            /\ resp' = h.resp
            /\ trace' = h.trace
            /\ extracted' = extracted \cup Found(h.trace)
            /\ pageImage' = ex.value
            /\ cache' = h.cache
            /\ file' = h.file
            /\ redisDb' = h.db
            /\ UNCHANGED << cfg, validVars, chainVars, callVars, lockVars >>

\* The time-to-live of a redis key runs out.
KeyExpires ==
    /\ \E k \in DOMAIN redisDb : redisDb' = MapDel(redisDb, k)
    /\ UNCHANGED << cfg, file, cache, apiVars, validVars, chainVars, callVars, lockVars >>

\* The process ends between two requests; the file and the redis keys stay.
Restart ==
    /\ cache.built
    /\ cache' = NoInstance
    /\ req' = None /\ resp' = NoResponse /\ trace' = << >> /\ pageImage' = None
    /\ UNCHANGED << cfg, file, redisDb, extracted, validVars, chainVars, callVars, lockVars >>

\* The process dies while a request is inside the file branch of set, after
\* open(path, 'wb') has emptied the file and before pickle.dump has written
\* all of it.  No response is sent.
DiesInSet ==
    \E book_url \in RequestUrls, ex \in { Extracted(page) : page \in Pages } :
        \E h \in { get_book_image(book_url, cfg, cache, file, redisDb,
                                   FALSE, TRUE, TRUE, ex) } :
            /\ ~h.cache.use_redis
            /\ h.trace # << >>
            /\ h.trace[Len(h.trace)].call = "cache.set"
            /\ h.trace[Len(h.trace)].out # "raised"
            /\ file' = Truncated
            /\ cache' = NoInstance
            /\ extracted' = extracted \cup Found(h.trace)
            /\ req' = None /\ resp' = NoResponse /\ trace' = << >> /\ pageImage' = None
            /\ UNCHANGED << cfg, redisDb, validVars, chainVars, callVars, lockVars >>

Next ==
    \/ Request
    \/ KeyExpires
    \/ Restart
    \/ DiesInSet

Spec == Init /\ [][Next]_vars

(***************************************************************************)
(* Threaded runs on the file backend: the threads of one process share one *)
(* instance; thread i calls set(u_i, v_i) and, when that has returned,     *)
(* get(u_i).  Every statement of the two with self.lock blocks is a step,  *)
(* and the process may die between any two steps.                          *)
(***************************************************************************)

MaxThreads == 2

Threads == 1..MaxThreads

\* Thread i's page URL; an older process wrote the entry of page 0.
ThreadUrl(i) == "https://www.amazon.com/dp/" \o ToString(i)

FileConfig == [redis_module |-> TRUE, CACHE_REDIS_URL |-> None]

\* key = f"{self.key_prefix}:{book_url}" in thread i
ThreadKey(i) == Key(cache.key_prefix, ThreadUrl(i))

\* The locals of a thread: its position, the image_url it sets, its dict
\* `cache`, what get returned, whether a call raised, and the file as it
\* was when its set took the lock.
Thread(pc, value, map, ret, raised, before) ==
    [pc |-> pc, value |-> value, map |-> map, ret |-> ret, raised |-> raised, before |-> before]

InitLock ==
    /\ cfg = FileConfig
    /\ cache = BookImageCache_init(FileConfig, FALSE).instance
    /\ redisDb = EmptyMap
    /\ file \in { NoFile,
                  Dump(MapSet(EmptyMap, Key(DEFAULT_KEY_PREFIX, ThreadUrl(0)), UrlA)) }
    /\ \E values \in [Threads -> ImageValues] :
            threads = [i \in Threads |->
                          Thread("set_lock", values[i], EmptyMap, None, FALSE, NoFile)]
    /\ lock = Unlocked
    /\ crashed = FALSE
    /\ appCache = NoCache
    /\ locks = << >>
    /\ ApiIdle /\ CallIdle /\ ValidIdle /\ ChainIdle

At(i, pc) == ~crashed /\ threads[i].pc = pc

Others ==
    << cfg, redisDb, cache, crashed, appCache, locks, validVars, chainVars, callVars, apiVars >>

\* set entering its block without taking the lock.
SetEntersUnlocked(i) ==
    /\ At(i, "set_lock")
    /\ threads' = [threads EXCEPT ![i].pc = "set_exists", ![i].map = EmptyMap,
                                  ![i].before = file]
    /\ UNCHANGED << lock, file, Others >>

\* pickle.load in set raising without the with block giving the lock back.
SetLoadKeepsLock(i) ==
    /\ At(i, "set_load")
    /\ IF Load(file).raised
       THEN threads' = [threads EXCEPT ![i].pc = "done", ![i].raised = TRUE]
       ELSE threads' = [threads EXCEPT ![i].pc = "set_assign", ![i].map = Load(file).map]
    /\ UNCHANGED << lock, file, Others >>

\* with self.lock: cache = {}
SetAcquire(i) ==
    /\ At(i, "set_lock")
    /\ lock = Unlocked
    /\ lock' = i
    /\ threads' = [threads EXCEPT ![i].pc = "set_exists", ![i].map = EmptyMap,
                                  ![i].before = file]
    /\ UNCHANGED << file, Others >>

\* if os.path.exists(self.file_db_path)
SetExists(i) ==
    /\ At(i, "set_exists")
    /\ threads' = [threads EXCEPT ![i].pc = IF Exists(file) THEN "set_load" ELSE "set_assign"]
    /\ UNCHANGED << lock, file, Others >>

\* cache = pickle.load(f); when it raises the with block gives the lock back.
SetLoad(i) ==
    /\ At(i, "set_load")
    /\ IF Load(file).raised
       THEN /\ threads' = [threads EXCEPT ![i].pc = "done", ![i].raised = TRUE]
            /\ lock' = IF lock = i THEN Unlocked ELSE lock
       ELSE /\ threads' = [threads EXCEPT ![i].pc = "set_assign", ![i].map = Load(file).map]
            /\ lock' = lock
    /\ UNCHANGED << file, Others >>

\* cache[key] = image_url
SetAssign(i) ==
    /\ At(i, "set_assign")
    /\ threads' = [threads EXCEPT ![i].pc = "set_open",
                                  ![i].map = MapSet(@, ThreadKey(i), threads[i].value)]
    /\ UNCHANGED << lock, file, Others >>

\* open(self.file_db_path, 'wb') empties the file.
SetOpen(i) ==
    /\ At(i, "set_open")
    /\ file' = Truncated
    /\ threads' = [threads EXCEPT ![i].pc = "set_dump"]
    /\ UNCHANGED << lock, Others >>

\* pickle.dump(cache, f) and the close of the file
SetDump(i) ==
    /\ At(i, "set_dump")
    /\ file' = Dump(threads[i].map)
    /\ threads' = [threads EXCEPT ![i].pc = "set_unlock"]
    /\ UNCHANGED << lock, Others >>

\* The end of set's with self.lock block; set returns.
SetRelease(i) ==
    /\ At(i, "set_unlock")
    /\ lock' = IF lock = i THEN Unlocked ELSE lock
    /\ threads' = [threads EXCEPT ![i].pc = "get_lock"]
    /\ UNCHANGED << file, Others >>

\* get: with self.lock
GetAcquire(i) ==
    /\ At(i, "get_lock")
    /\ lock = Unlocked
    /\ lock' = i
    /\ threads' = [threads EXCEPT ![i].pc = "get_exists"]
    /\ UNCHANGED << file, Others >>

\* if not os.path.exists(self.file_db_path): return None
GetExists(i) ==
    /\ At(i, "get_exists")
    /\ IF Exists(file)
       THEN /\ threads' = [threads EXCEPT ![i].pc = "get_load"]
            /\ lock' = lock
       ELSE /\ threads' = [threads EXCEPT ![i].pc = "done", ![i].ret = None]
            /\ lock' = Unlocked
    /\ UNCHANGED << file, Others >>

\* cache = pickle.load(f); when it raises the with block gives the lock back.
GetLoad(i) ==
    /\ At(i, "get_load")
    /\ IF Load(file).raised
       THEN /\ threads' = [threads EXCEPT ![i].pc = "done", ![i].raised = TRUE]
            /\ lock' = Unlocked
       ELSE /\ threads' = [threads EXCEPT ![i].pc = "get_return", ![i].map = Load(file).map]
            /\ lock' = lock
    /\ UNCHANGED << file, Others >>

\* return cache.get(key), which ends the with self.lock block
GetReturn(i) ==
    /\ At(i, "get_return")
    /\ threads' = [threads EXCEPT ![i].pc = "done",
                                  ![i].ret = MapGet(threads[i].map, ThreadKey(i))]
    /\ lock' = Unlocked
    /\ UNCHANGED << file, Others >>

\* The process dies; the file stays as it is.
Crash ==
    /\ ~crashed
    /\ crashed' = TRUE
    /\ UNCHANGED << threads, lock, appCache, locks, storeVars, validVars, chainVars, callVars,
                    apiVars >>

NextLock ==
    \/ \E i \in Threads :
          \/ SetAcquire(i)
          \/ SetExists(i)
          \/ SetLoad(i)
          \/ SetAssign(i)
          \/ SetOpen(i)
          \/ SetDump(i)
          \/ SetRelease(i)
          \/ GetAcquire(i)
          \/ GetExists(i)
          \/ GetLoad(i)
          \/ GetReturn(i)
    \/ Crash

SpecLock == InitLock /\ [][NextLock]_vars

\* Calls of one instance that run to their end: each thread starts at a set
\* (and goes on to a get of what it wrote) or at a get, and the cache file may
\* be missing, hold a map, or be one pickle.load cannot read.
CallStarts == { "set_lock", "get_lock" }

InitFair ==
    /\ cfg = FileConfig
    /\ cache = BookImageCache_init(FileConfig, FALSE).instance
    /\ redisDb = EmptyMap
    /\ file \in { NoFile, Truncated,
                  Dump(MapSet(EmptyMap, Key(DEFAULT_KEY_PREFIX, ThreadUrl(0)), UrlA)) }
    /\ \E values \in [Threads -> ImageValues], starts \in [Threads -> CallStarts] :
            threads = [i \in Threads |->
                          Thread(starts[i], values[i], EmptyMap, None, FALSE, NoFile)]
    /\ lock = Unlocked
    /\ crashed = FALSE
    /\ appCache = NoCache
    /\ locks = << >>
    /\ ApiIdle /\ CallIdle /\ ValidIdle /\ ChainIdle

\* The next statement of thread i.
Step(i) ==
    \/ SetAcquire(i)
    \/ SetExists(i)
    \/ SetLoad(i)
    \/ SetAssign(i)
    \/ SetOpen(i)
    \/ SetDump(i)
    \/ SetRelease(i)
    \/ GetAcquire(i)
    \/ GetExists(i)
    \/ GetLoad(i)
    \/ GetReturn(i)

NextFair == \E i \in Threads : Step(i)

\* The interpreter keeps running every thread that can run.
Fairness == \A i \in Threads : WF_vars(Step(i))

SpecFair == InitFair /\ [][NextFair]_vars /\ Fairness

(***************************************************************************)
(* Concurrent requests before the cache exists: every thread serves one    *)
(* request for its own page on the file backend.  The steps are the        *)
(* statements of get_book_image from the getattr on, and inside cache.set  *)
(* the statements of its with self.lock block; an instance is named after  *)
(* the thread that constructed it.                                         *)
(***************************************************************************)

\* The locals of a request thread: its position, its `cache`, the dict
\* inside set, the image extract_image_url finds for its page, and the
\* status it answers with.
Serving(pc, inst, map, value, status) ==
    [pc |-> pc, inst |-> inst, map |-> map, value |-> value, status |-> status]

InitRace ==
    /\ cfg = FileConfig
    /\ cache = NoInstance
    /\ redisDb = EmptyMap
    /\ file = NoFile
    /\ \E values \in [Threads -> ImageValues] :
            threads = [i \in Threads |-> Serving("getattr", NoCache, EmptyMap, values[i], 0)]
    /\ appCache = NoCache
    /\ locks = [i \in Threads |-> Unlocked]
    /\ lock = Unlocked
    /\ crashed = FALSE
    /\ ApiIdle /\ CallIdle /\ ValidIdle /\ ChainIdle

Rest == << cfg, redisDb, cache, lock, crashed, validVars, chainVars, callVars, apiVars >>

RequestKey(i) == Key(DEFAULT_KEY_PREFIX, ThreadUrl(i))

\* cache = getattr(current_app, '_book_image_cache', None)
ReqGetAttr(i) ==
    /\ threads[i].pc = "getattr"
    /\ threads' = [threads EXCEPT ![i].inst = appCache,
                                  ![i].pc = IF appCache = NoCache THEN "construct" ELSE "get"]
    /\ UNCHANGED << appCache, locks, file, Rest >>

\* if cache is None: cache = BookImageCache(current_app.config)
ReqConstruct(i) ==
    /\ threads[i].pc = "construct"
    /\ threads' = [threads EXCEPT ![i].inst = i, ![i].pc = "setattr"]
    /\ locks' = [locks EXCEPT ![i] = Unlocked]
    /\ UNCHANGED << appCache, file, Rest >>

\* setattr(current_app, '_book_image_cache', cache)
ReqSetAttr(i) ==
    /\ threads[i].pc = "setattr"
    /\ appCache' = threads[i].inst
    /\ threads' = [threads EXCEPT ![i].pc = "get"]
    /\ UNCHANGED << locks, file, Rest >>

\* image_url = cache.get(book_url), the whole call under the lock of the
\* thread's instance; on a miss extract_image_url finds the page's image.
ReqCacheGet(i) ==
    /\ threads[i].pc = "get"
    /\ locks[threads[i].inst] = Unlocked
    /\ LET got == file_get([key_prefix |-> DEFAULT_KEY_PREFIX], ThreadUrl(i), file)
       IN  threads' = [threads EXCEPT
                          ![i].pc = IF got.raised \/ Truthy(got.ret) THEN "done" ELSE "set_lock",
                          ![i].status = IF got.raised THEN 500
                                        ELSE IF Truthy(got.ret) THEN 200 ELSE 0]
    /\ UNCHANGED << appCache, locks, file, Rest >>

\* cache.set(book_url, image_url): with self.lock
ReqSetAcquire(i) ==
    /\ threads[i].pc = "set_lock"
    /\ locks[threads[i].inst] = Unlocked
    /\ locks' = [locks EXCEPT ![threads[i].inst] = i]
    /\ threads' = [threads EXCEPT ![i].pc = "set_load"]
    /\ UNCHANGED << appCache, file, Rest >>

\* cache = {}; the load when the file exists; cache[key] = image_url
ReqSetLoad(i) ==
    /\ threads[i].pc = "set_load"
    /\ IF Exists(file) /\ Load(file).raised
       THEN /\ threads' = [threads EXCEPT ![i].pc = "done", ![i].status = 500]
            /\ locks' = [locks EXCEPT ![threads[i].inst] = Unlocked]
       ELSE /\ threads' = [threads EXCEPT
                              ![i].pc = "set_open",
                              ![i].map = MapSet(IF Exists(file) THEN Load(file).map
                                                ELSE EmptyMap,
                                                RequestKey(i), threads[i].value)]
            /\ locks' = locks
    /\ UNCHANGED << appCache, file, Rest >>

\* open(self.file_db_path, 'wb') empties the file.
ReqSetOpen(i) ==
    /\ threads[i].pc = "set_open"
    /\ file' = Truncated
    /\ threads' = [threads EXCEPT ![i].pc = "set_dump"]
    /\ UNCHANGED << appCache, locks, Rest >>

\* pickle.dump(cache, f)
ReqSetDump(i) ==
    /\ threads[i].pc = "set_dump"
    /\ file' = Dump(threads[i].map)
    /\ threads' = [threads EXCEPT ![i].pc = "set_unlock"]
    /\ UNCHANGED << appCache, locks, Rest >>

\* The end of the with block; set returns and the handler answers 200.
ReqSetRelease(i) ==
    /\ threads[i].pc = "set_unlock"
    /\ locks' = [locks EXCEPT ![threads[i].inst] = Unlocked]
    /\ threads' = [threads EXCEPT ![i].pc = "done", ![i].status = 200]
    /\ UNCHANGED << appCache, file, Rest >>

NextRace ==
    \E i \in Threads :
        \/ ReqGetAttr(i)
        \/ ReqConstruct(i)
        \/ ReqSetAttr(i)
        \/ ReqCacheGet(i)
        \/ ReqSetAcquire(i)
        \/ ReqSetLoad(i)
        \/ ReqSetOpen(i)
        \/ ReqSetDump(i)
        \/ ReqSetRelease(i)

SpecRace == InitRace /\ [][NextRace]_vars

(***************************************************************************)
(* Properties of the validator.                                            *)
(***************************************************************************)

\* s holds t as a substring when case is ignored on both sides.
ContainsIgnoreCase(s, t) ==
    \E i \in 1..(Len(s) - Len(t) + 1) :
        \A k \in 1..Len(t) :
            LowerChar(SubSeq(s, i + k - 1, i + k - 1)) = LowerChar(SubSeq(t, k, k))

HoldsPlaceholder(url) ==
    \E k \in 1..Len(PLACEHOLDER_IMAGES) : ContainsIgnoreCase(url, PLACEHOLDER_IMAGES[k])

\* C10: a candidate that holds any entry of PLACEHOLDER_IMAGES as a substring,
\* compared case-insensitively, is rejected by is_valid_image_url whatever its
\* domain, extension and dimension tokens are: no candidate that the
\* validator accepted holds one.
C10_PlaceholderRejected ==
    (vDone /\ vResult) => ~HoldsPlaceholder(vUrl)

\* C10's case: a placeholder marker written in another case, in a candidate
\* whose domain and extension checks pass, has been rejected.
C10_Witness ==
    /\ vDone /\ vResult = FALSE
    /\ HoldsPlaceholder(vUrl) /\ ~IsPlaceholderCaseSensitive(vUrl)
    /\ is_amazon_image(vUrl) /\ has_extension(vUrl) /\ ~TooSmall(vUrl)

\* The positions of s where tag, one or more digits and an underscore stand.
TokenStarts(s, tag) ==
    { i \in 1..(Len(s) - Len(tag) - 1) : TokenAt(s, tag, i) }

\* The number of the leftmost such token of s; -1 when s has none.
Dimension(s, tag) ==
    LET starts == TokenStarts(s, tag)
    IN  IF starts = { } THEN -1
        ELSE LET i == CHOOSE k \in starts : \A j \in starts : k <= j
                 n == DigitRun(s, i + Len(tag))
             IN  ParseInt(SubSeq(s, i + Len(tag), i + Len(tag) + n - 1))

\* s carries a parsable _SX<w>_ and a parsable _SY<h>_.
BothDimensions(s) == Dimension(s, "_SX") >= 0 /\ Dimension(s, "_SY") >= 0

SmallDimensions(s) ==
    /\ BothDimensions(s)
    /\ (Dimension(s, "_SX") < 100 \/ Dimension(s, "_SY") < 100)

\* The domain and extension checks.
DomainAndExtension(s) ==
    /\ Contains(s, "amazon")
    /\ \/ Contains(s, "images-amazon")
       \/ \E k \in 1..Len(image_extensions) : ContainsIgnoreCase(s, image_extensions[k])

\* C11: a candidate with parsable _SX<w>_ and _SY<h>_ tokens and w < 100 or
\* h < 100 is rejected even when the domain and extension checks pass; a
\* candidate whose tokens are malformed, or that has only one of them, is
\* under no size constraint: apart from the placeholder check its result is
\* the result of the domain and extension checks.  Where a tag occurs more
\* than once the leftmost token is the one that counts.
C11_SmallImagesRejected ==
    vDone =>
        /\ SmallDimensions(vUrl) => (vResult = FALSE)
        /\ ~BothDimensions(vUrl) =>
                IF vResult THEN DomainAndExtension(vUrl)
                ELSE ~DomainAndExtension(vUrl) \/ HoldsPlaceholder(vUrl)

\* C11's case: a candidate that passes the domain and extension checks and
\* holds no placeholder has been rejected for one axis below 100 while the
\* other is not.
C11_Witness ==
    /\ vDone /\ vResult = FALSE
    /\ DomainAndExtension(vUrl) /\ ~HoldsPlaceholder(vUrl)
    /\ Dimension(vUrl, "_SX") >= 100
    /\ Dimension(vUrl, "_SY") >= 0 /\ Dimension(vUrl, "_SY") < 100

(***************************************************************************)
(* Properties of the engine.                                               *)
(***************************************************************************)

\* Strategy idx, run on its own against the document, yields a URL that
\* passes is_valid_image_url.
Yields(idx, doc) ==
    /\ ~Method(idx, doc).raised
    /\ is_valid_image_url(Method(idx, doc).ret)

Parsed == chFetch = "ok" /\ chParse = "ok"

\* C1: for every parsed document extract_image_url returns the result of the
\* lowest-numbered strategy that yields a URL passing is_valid_image_url, and
\* the strategies numbered above it are not evaluated.
C1_LowestStrategyWins ==
    (chDone /\ Parsed) =>
        \A i \in 1..NumMethods :
            (Yields(i, chDoc) /\ \A h \in 1..(i - 1) : ~Yields(h, chDoc)) =>
                /\ chOut.value = Method(i, chDoc).ret
                /\ chOut.evaluated = [k \in 1..i |-> k]

\* C2: extract_image_url never raises to its caller; it returns None when all
\* seven strategies report no match, and when the fetch, the parse or a
\* strategy raises.
AllNoMatch(doc) ==
    \A i \in 1..NumMethods : ~Method(i, doc).raised /\ Method(i, doc).ret = None

SomeFault ==
    \/ chFetch = "error"
    \/ chParse = "error"
    \/ \E k \in 1..Len(chOut.evaluated) : Method(chOut.evaluated[k], chDoc).raised

C2_NeverRaises ==
    chDone =>
        /\ ~chOut.escaped
        /\ (Parsed /\ AllNoMatch(chDoc)) => (chOut.value = None)
        /\ SomeFault => (chOut.value = None)

\* C2's case: a strategy raised inside the chain and the call ended with None.
C2_Witness ==
    /\ chDone /\ Parsed
    /\ \E k \in 1..Len(chOut.evaluated) : Method(chOut.evaluated[k], chDoc).raised
    /\ chOut.value = None /\ ~chOut.escaped

\* A dynamic-image attribute that is not JSON or not a JSON object.
BadDyn(element) ==
    element # NoElement /\ element.dyn.kind \in { "badjson", "nonobject" }

\* The document holds malformed embedded data: such an attribute on the
\* front or the main image, or a script payload that does not decode or
\* whose mainUrl is no string.
MalformedData(doc) ==
    \/ BadDyn(doc.front)
    \/ BadDyn(doc.main)
    \/ \E k \in 1..Len(doc.scripts) :
          \E j \in 1..Len(doc.scripts[k].gallery) :
              doc.scripts[k].gallery[j] \in { "badjson", "nonstr" }

\* C14: on a document with malformed embedded data no strategy raises, the
\* chain evaluates every strategy until one matches, and a valid match at
\* a later strategy is returned.
C14_MalformedDataSwallowed ==
    (chDone /\ Parsed /\ MalformedData(chDoc)) =>
        /\ \A k \in 1..Len(chOut.evaluated) : ~Method(chOut.evaluated[k], chDoc).raised
        /\ (chOut.value = None) => (chOut.evaluated = [k \in 1..NumMethods |-> k])
        /\ (\E i \in 1..NumMethods : Yields(i, chDoc)) => (chOut.value # None)

(***************************************************************************)
(* Properties of the cache store used by one thread.                       *)
(***************************************************************************)

\* The last call is a get(u) that came straight after a set(u, v) that returned.
GetAfterSet == last.op = "get" /\ last.after.url = last.url

\* C3: on one instance under single-threaded access, get(u) straight after
\* set(u, v) returns v, on the redis backend and on the file backend; the one
\* way it does not return is a redis server that does not answer the get.
C3_RoundTrip ==
    GetAfterSet =>
        IF last.raised THEN cache.use_redis ELSE last.ret = last.after.value

\* C3's case: a value set in redis has come back from the get that followed.
C3_Witness ==
    /\ GetAfterSet /\ cache.use_redis
    /\ ~last.raised /\ last.ret = last.after.value /\ last.ret \in ImageValues

\* The file exists and does not deserialize.
Corrupt(f) == Exists(f) /\ Load(f).raised

\* C6: on the file backend a cache file that exists but does not deserialize
\* is treated as an empty cache: get returns None, set writes a map holding
\* the new entry, and neither raises.
C6_CorruptTreatedAsEmpty ==
    /\ (last.op = "get" /\ ~cache.use_redis /\ Corrupt(file)) =>
            (~last.raised /\ last.ret = None)
    /\ (last.op = "set" /\ ~cache.use_redis) =>
            /\ ~last.raised
            /\ ~Corrupt(file)
            /\ MapGet(Load(file).map, Key(cache.key_prefix, last.url)) = last.value

\* The constructor found no usable redis: no module, no URL, a URL of
\* another scheme, or a connection or ping that failed.
FallbackCase ==
    \/ ~cfg.redis_module
    \/ cfg.CACHE_REDIS_URL = None
    \/ ~StartsWith(cfg.CACHE_REDIS_URL, "redis://")
    \/ ~cache.ping

\* C7: the constructor raises nothing; in the fallback case the instance
\* reports the file backend, and its get and set go through the file: a set
\* that returned has put the entry into the file, a get that returned has
\* read the file, and the get after a set returns the value set.
C7_FallsBackToFile ==
    /\ (last.op = "init") => (~last.raised /\ cache.built)
    /\ (cache.built /\ FallbackCase) =>
            /\ ~cache.use_redis
            /\ (last.op = "set" /\ ~last.raised) =>
                    MapGet(Load(file).map, Key(cache.key_prefix, last.url)) = last.value
            /\ (last.op = "get" /\ ~last.raised) =>
                    last.ret = MapGet(Load(file).map, Key(cache.key_prefix, last.url))
            /\ (GetAfterSet) => (~last.raised /\ last.ret = last.after.value)

\* C7's case: redis was configured, the ping failed, and a value has made
\* the round trip through the file.
C7_Witness ==
    /\ cache.built /\ cfg.redis_module /\ cfg.CACHE_REDIS_URL = DEFAULT_REDIS_URL
    /\ ~cache.ping /\ ~cache.use_redis
    /\ GetAfterSet /\ ~last.raised /\ last.ret = last.after.value
    /\ redisDb = EmptyMap /\ Load(file).map # EmptyMap

(***************************************************************************)
(* Properties of the /book-image handler.                                  *)
(***************************************************************************)

\* Every value the cache holds, in the file and in redis.
StoredValues ==
    { file.map[k] : k \in DOMAIN file.map } \cup { Decode(redisDb[k]) : k \in DOMAIN redisDb }

\* C8: after any sequence of /book-image requests every value stored in the
\* cache, under any key, was returned by extract_image_url and passes
\* is_valid_image_url; a None result is never written.
C8_StoredImagesAreValid ==
    \A v \in StoredValues :
        /\ v \in extracted
        /\ is_valid_image_url(v)
        /\ Truthy(v)

\* C8's case: images have been written to the file and to redis, and the
\* last request ended with 404 after extract_image_url returned None.
C8_Witness ==
    /\ file.map # EmptyMap /\ redisDb # EmptyMap
    /\ resp.status = 404
    /\ trace # << >>
    /\ trace[Len(trace)].call = "extract_image_url" /\ trace[Len(trace)].out = None

\* The positions of the calls of one name in the calls of a request.
CallsOf(t, name) == { k \in 1..Len(t) : t[k].call = name }

\* What the cache holds for the URL once the instance has written it.
Held(inst, book_url, f, db) ==
    IF inst.use_redis
    THEN LET b == MapGet(db, Key(inst.key_prefix, book_url))
         IN  IF b = None THEN None ELSE Decode(b)
    ELSE MapGet(f.map, Key(inst.key_prefix, book_url))

\* The order of the calls of one accepted request q, answered with r after
\* the calls t, leaving instance inst, file f and redis keys db.
CacheAside(q, r, t, inst, f, db) ==
    LET gets == CallsOf(t, "cache.get")
        exts == CallsOf(t, "extract_image_url")
        sets == CallsOf(t, "cache.set")
    IN  /\ Cardinality(gets) = 1
        /\ \A g \in gets :
              /\ t[g].url = q
              /\ \A e \in exts \cup sets : g < e
              /\ (t[g].out # "raised" /\ Truthy(t[g].out)) =>
                    /\ exts = { } /\ sets = { }
                    /\ r.status = 200 /\ r.cached /\ r.image_url = t[g].out
              /\ (t[g].out # "raised" /\ ~Truthy(t[g].out)) => Cardinality(exts) = 1
              /\ (t[g].out = "raised") => exts = { }
        /\ r.cached => exts = { }
        /\ \A e \in exts :
              (t[e].out # "raised" /\ Truthy(t[e].out)) =>
                    /\ \E w \in sets : w > e /\ t[w].url = q /\ t[w].value = t[e].out
                    /\ (r.status = 200) =>
                          /\ ~r.cached /\ r.image_url = t[e].out
                          /\ Held(inst, q, f, db) = t[e].out

\* C9: every accepted request consults the cache first; on a hit the value
\* is returned with cached = true and extract_image_url is not called; on a
\* miss extract_image_url is called exactly once, and an image it finds is
\* written to the cache under the request's URL before the response with
\* cached = false is returned.
C9_CacheAsideOrder ==
    [][(trace' # << >> /\ ~KeyExpires) =>
            CacheAside(req', resp', trace', cache', file', redisDb')]_vars

\* C9's case: a miss, one extraction that found an image, the write under
\* the request's URL, and the response with cached = false.
C9_Witness ==
    /\ resp.status = 200 /\ ~resp.cached
    /\ Len(trace) >= 3
    /\ trace[Len(trace) - 2].call = "cache.get" /\ trace[Len(trace) - 2].out = None
    /\ trace[Len(trace) - 1].call = "extract_image_url"
    /\ trace[Len(trace)].call = "cache.set" /\ trace[Len(trace)].url = req
    /\ Held(cache, req, file, redisDb) = resp.image_url

\* The url parameters that are there and hold amazon in some case.
WellFormedUrls ==
    { u \in RequestUrls : Truthy(u) /\ ContainsIgnoreCase(u, "amazon") }

WellFormed(book_url) == book_url \in WellFormedUrls

\* C12: a well-formed request for which no image can be resolved (nothing
\* comes from the cache and extract_image_url finds nothing on the page) is
\* answered with success = false and status 404, never with status 500,
\* whatever the cache backend does.
C12_NotFoundNotFault ==
    (/\ resp # NoResponse
     /\ WellFormed(req)
     /\ ~Truthy(pageImage)
     /\ ~(resp.status = 200 /\ resp.cached)) =>
        (resp.status = 404 /\ resp.success = FALSE)

\* C13: a request whose url is missing, empty or without amazon is answered
\* 400 before anything else happens: no BookImageCache is constructed, no
\* cache get or set and no extract_image_url is called, and the instance,
\* the file and the redis keys stay as they were.
C13_RejectedBeforeCore ==
    [][~KeyExpires =>
            /\ (resp' # NoResponse /\ ~WellFormed(req')) => resp'.status = 400
            /\ (resp'.status = 400) =>
                    /\ trace' = << >>
                    /\ UNCHANGED << cache, file, redisDb, extracted >>]_vars

\* C13's case: with an instance built and images in the file, a request for
\* a page of another site has been answered 400.
C13_Witness ==
    /\ req = OtherUrl /\ resp.status = 400 /\ trace = << >>
    /\ cache.built /\ file.map # EmptyMap

(***************************************************************************)
(* Properties of the file backend under threads and crashes.               *)
(***************************************************************************)

\* Thread i's set has returned.
SetReturned(i) ==
    threads[i].pc \in { "get_lock", "get_exists", "get_load", "get_return", "done" }

\* C4: threads of one instance set distinct URLs in any interleaving; once
\* all the sets have returned the file holds every thread's value under its
\* key, and the get of every thread returns the value that thread set.
C4_NoLostUpdate ==
    /\ \A i \in Threads : ~threads[i].raised
    /\ (\A i \in Threads : SetReturned(i)) =>
            \A i \in Threads :
                /\ MapGet(Load(file).map, ThreadKey(i)) = threads[i].value
                /\ (threads[i].pc = "done") => (threads[i].ret = threads[i].value)

\* C4's case: every thread has set and got, and two sets were in their
\* blocks one after the other on a file that the first one created.
C4_Witness ==
    /\ \A i \in Threads : threads[i].pc = "done" /\ threads[i].ret = threads[i].value
    /\ \E i \in Threads : threads[i].before = NoFile
    /\ \E i \in Threads : threads[i].before # NoFile
    /\ \A i \in Threads : MapGet(Load(file).map, ThreadKey(i)) = threads[i].value

\* Thread i is inside set's with self.lock block.
InSet(i) ==
    threads[i].pc \in { "set_exists", "set_load", "set_assign", "set_open", "set_dump",
                        "set_unlock" }

\* The map a file holds; a file that is missing holds none.
MapOf(f) == IF Exists(f) THEN Load(f).map ELSE EmptyMap

\* C5: when the process dies during a set, the file afterwards is the
\* complete map from before that set or the complete map after it, never a
\* truncated one.
C5_AtomicReplace ==
    crashed =>
        /\ ~Corrupt(file)
        /\ \A i \in Threads : InSet(i) =>
                \/ file = threads[i].before
                \/ file = Dump(MapSet(MapOf(threads[i].before), ThreadKey(i), threads[i].value))

(***************************************************************************)
(* Properties of concurrent requests.                                      *)
(***************************************************************************)

\* Thread i is inside the load-mutate-persist cycle of a set.
InCycle(i) == threads[i].pc \in { "set_load", "set_open", "set_dump", "set_unlock" }

\* C15: requests that arrive before the cache exists construct one
\* BookImageCache and all use it, so at most one of them is inside a
\* load-mutate-persist cycle at a time, and once all have answered 200 the
\* file holds the image every one of them wrote.
C15_OneInstanceOneLock ==
    /\ \A i, j \in Threads :
            (threads[i].inst # NoCache /\ threads[j].inst # NoCache) =>
                threads[i].inst = threads[j].inst
    /\ \A i, j \in Threads : (InCycle(i) /\ InCycle(j)) => i = j
    /\ (\A i \in Threads : threads[i].pc = "done" /\ threads[i].status = 200) =>
            \A i \in Threads : MapGet(MapOf(file), RequestKey(i)) = threads[i].value

\* Thread i is inside a with self.lock block of get or set.
InBlock(i) ==
    threads[i].pc \in { "set_exists", "set_load", "set_assign", "set_open", "set_dump",
                        "set_unlock", "get_exists", "get_load", "get_return" }

\* Thread i waits for the lock at the start of a get or a set.
Blocked(i) == threads[i].pc \in CallStarts

\* Every call has returned, by a return or by raising.
AllReturned == \A i \in Threads : threads[i].pc = "done"

\* C16: every get or set of the file backend returns, also when it raises,
\* and leaves the lock free; the lock is held exactly by the thread that is
\* inside a block, a thread waiting for the lock gets inside, and no two
\* threads are inside a block at once.
C16_ReturnsAndReleases ==
    /\ [](\A i \in Threads : InBlock(i) <=> lock = i)
    /\ [](\A i, j \in Threads : (InBlock(i) /\ InBlock(j)) => i = j)
    /\ [](AllReturned => lock = Unlocked)
    /\ \A i \in Threads : Blocked(i) ~> InBlock(i)
    /\ <>[](AllReturned /\ lock = Unlocked)

\* Both kinds of call ended by raising on a file pickle.load cannot read: the
\* set of thread i (which recorded the file it found) and the get of thread j.
C16_Witness ==
    /\ AllReturned
    /\ lock = Unlocked
    /\ \E i, j \in Threads : /\ threads[i].raised
                             /\ threads[i].before = Truncated
                             /\ threads[j].raised
                             /\ threads[j].before = NoFile

\* The keys get and set of this model use.
FileKeys == { Key(DEFAULT_KEY_PREFIX, u) : u \in PageUrls }

\* What the file holds for a key.
Entry(f, k) == MapGet(MapOf(f), k)

\* The app's instance exists and uses the file.
FileBackend == cache.built /\ ~cache.use_redis

\* C17: on the file backend an entry of the file changes only by a set of its
\* own key that returned, which leaves the value set; every other step,
\* a get, a set of another key, the passing of time, leaves it as it is, and
\* a get of a key the file has an entry for returns that entry.
C17_FramePersistence ==
    [][ /\ \A k \in FileKeys :
              Entry(file', k) # Entry(file, k) =>
                  /\ FileBackend
                  /\ last'.op = "set" /\ ~last'.raised
                  /\ Key(cache.key_prefix, last'.url) = k
                  /\ Entry(file', k) = last'.value
        /\ (FileBackend /\ last'.op = "get" /\ UNCHANGED << cache, redisDb >>) =>
              /\ file' = file
              /\ Entry(file, Key(cache.key_prefix, last'.url)) # None =>
                    /\ ~last'.raised
                    /\ last'.ret = Entry(file, Key(cache.key_prefix, last'.url)) ]_vars

\* The key of the call recorded last in the next state.
CalledKey == Key(cache.key_prefix, last'.url)

\* What a get of the redis backend returns for a key.
FromRedis(db, k) == IF MapGet(db, k) = None THEN None ELSE Decode(MapGet(db, k))

\* C18: an instance reports the redis backend only if it was configured and
\* the ping of its constructor succeeded; no call of get or set, failed ones
\* included, changes the instance; while it lives every step leaves the
\* other backend's store unwritten, and every call that returns has read or
\* written the store of the backend chosen at construction.
C18_BackendFixedAtInit ==
    [][ /\ cache'.built => (cache'.use_redis <=> (TriesRedis(cfg) /\ cache'.ping))
        /\ (cache.built /\ cache'.built) => cache' = cache
        /\ (cache.built /\ cache' = cache) =>
              /\ cache.use_redis => file' = file
              /\ ~cache.use_redis =>
                    \A k \in DOMAIN redisDb' : k \in DOMAIN redisDb /\ redisDb'[k] = redisDb[k]
              /\ (last' # last /\ last'.op = "set" /\ ~last'.raised) =>
                    IF cache.use_redis
                    THEN MapGet(redisDb', CalledKey) = Encode(last'.value)
                    ELSE Entry(file', CalledKey) = last'.value
              /\ (last' # last /\ last'.op = "get" /\ ~last'.raised) =>
                    IF cache.use_redis
                    THEN last'.ret = FromRedis(redisDb, CalledKey)
                    ELSE last'.ret = Entry(file, CalledKey)
              /\ (last' # last /\ last'.raised) =>
                    /\ last'.op \in { "get", "set" }
                    /\ file' = file /\ redisDb' = redisDb ]_vars

\* C18's case: the instance uses redis, the file holds an entry an earlier
\* process wrote, and the set called last failed in the redis client and
\* left both stores as they were.
C18_Witness ==
    /\ cache.built /\ cache.use_redis
    /\ last.op = "set" /\ last.raised
    /\ Entry(file, Key(cache.key_prefix, last.url)) \in ImageValues \ { last.value }
    /\ MapGet(redisDb, Key(cache.key_prefix, last.url)) = None

====
